---- MODULE Spec2Model ----
(***************************************************************************)
(* Token / session synchronisation between the native host and the        *)
(* embedded web content (routiners-app).                                   *)
(*                                                                         *)
(* The repository holds two builds of the useAuth hook:                    *)
(*   variant = "token"   : src/hooks/use-auth.ts  (SET_TOKEN protocol)     *)
(*   variant = "session" : src/app/index.tsx, lines 342-717                *)
(*                         (SET_SESSION / CLEAR_SESSION protocol)          *)
(* Both are modelled by the same state machine; `variant` is fixed by Init *)
(* and selects the code each action follows.                               *)
(*                                                                         *)
(* One action = one run of a handler or of a promise continuation on the   *)
(* single cooperative JS thread.  React state (`session`, `isReady`) is    *)
(* taken to be re-rendered before the next handler runs.                   *)
(***************************************************************************)
EXTENDS Integers, Sequences, FiniteSets, TLC

(* ---------------------------------------------------------------------- *)
(* Bounds                                                                  *)
(* ---------------------------------------------------------------------- *)
MaxToken == 2
MaxCalls == 2
MaxRefresh == 1
MaxSignOut == 1
MaxTime == 4

(* ---------------------------------------------------------------------- *)
(* Values                                                                  *)
(* ---------------------------------------------------------------------- *)
Null == 0

Tokens == 1..MaxToken

\* A Session carries the two credentials the host forwards.
MkSession(t) == [access_token |-> t, refresh_token |-> t]

Sessions == {MkSession(t) : t \in Tokens}

\* `session === null`
NoSession == [access_token |-> Null, refresh_token |-> Null]

Waiters == 1..MaxCalls

Variants == {"token", "session"}

\* Effects a handler has on the outside world, in program order:
\* commands injected into the content and calls made to the provider.
Effect(type, a, r) == [type |-> type, token |-> a, refresh |-> r]

SetTokenCmd(token) == Effect("SET_TOKEN", token, Null)

SetSessionCmd(accessToken, refreshToken) == Effect("SET_SESSION", accessToken, refreshToken)

ClearSessionCmd == Effect("CLEAR_SESSION", Null, Null)

ProviderSignOut == Effect("provider.signOut", Null, Null)

ProviderRefresh == Effect("provider.refreshSession", Null, Null)

IsCommand(e) == e.type \in {"SET_TOKEN", "SET_SESSION", "CLEAR_SESSION", "NAVIGATE_HOME"}

\* The command tells the content to drop its credentials.
IsClear(e) == e.type = "CLEAR_SESSION" \/ (e.type = "SET_TOKEN" /\ e.token = Null)

\* The command hands the content a credential.
IsSet(e) == e.type = "SET_SESSION" \/ (e.type = "SET_TOKEN" /\ e.token # Null)

\* Commands the content acknowledges (TOKEN_RECEIVED / SESSION_SET).
IsAcked(e) == e.type \in {"SET_TOKEN", "SET_SESSION"}

(* ---------------------------------------------------------------------- *)
(* Values of the screen: URLs, paths, route descriptors                    *)
(* ---------------------------------------------------------------------- *)

\* The paths the content can be at: home, the login page, a tab, a page under it.
Paths == {"/", "/login", "/ai", "/ai/detail"}

\* A URL string: one that `new URL(url)` parses, with its pathname, or one
\* that it rejects.
MkUrl(path) == [parses |-> TRUE, pathname |-> path]

MalformedUrl == [parses |-> FALSE, pathname |-> "?"]

\* A relative reference such as "/ai/detail": it has a path, and `new URL(url)`,
\* called without a base, rejects it.
RelativeUrl(path) == [parses |-> FALSE, pathname |-> path]

Urls == {MkUrl(p) : p \in Paths} \cup {MalformedUrl, RelativeUrl("/ai/detail")}

\* extractPath(url): `try { return new URL(url).pathname } catch { return '/' }`
extractPath(u) == IF u.parses THEN u.pathname ELSE "/"

\* url.includes('/login')
IncludesLogin(u) == u.parses /\ u.pathname = "/login"

\* The configured set of tab routes, and the membership test on it.
TabRoutes == {"/", "/ai"}

isTabRoute(path) == path \in TabRoutes

\* getInitialUrl() and getLoginUrl()
getInitialUrl == MkUrl("/")

getLoginUrl == MkUrl("/login")

RouteInfos == [path : Paths, isTabRoute : BOOLEAN, isHome : BOOLEAN, canGoBack : BOOLEAN]

DEFAULT_ROUTE_INFO == [path |-> "/", isTabRoute |-> TRUE, isHome |-> TRUE, canGoBack |-> FALSE]

\* `{ ...DEFAULT_ROUTE_INFO, path: '/login', isHome: false }`
LoginRouteInfo == [DEFAULT_ROUTE_INFO EXCEPT !.path = "/login", !.isHome = FALSE]

\* The window of the double press that exits, in clock ticks.
DOUBLE_TAP_EXIT_DELAY == 2

\* What a back press does besides its return value.
GoBack == Effect("webView.goBack", Null, Null)

NavigateHomeCmd == Effect("NAVIGATE_HOME", Null, Null)

ExitApp == Effect("BackHandler.exitApp", Null, Null)

ExitToast == Effect("ToastAndroid.show", Null, Null)

VARIABLES
    variant,          \* which build of useAuth runs
    attached,         \* webViewRef.current # null
    isReady,          \* useState isReady
    session,          \* useState session (cached copy of the provider's session)
    lastSentToken,    \* lastSentTokenRef.current
    webReady,         \* webReadyRef.current
    resolverRef,      \* tokenReceivedResolverRef / sessionSetResolverRef: waiter id, Null if empty
    timers,           \* waiters whose setTimeout is armed
    promise,          \* waiter -> "unissued" | "pending" | "settled"
    resolveCalls,     \* waiter -> number of times its resolve() ran (capped at 2)
    unacked,          \* pushes the content has received and not yet acknowledged (0 = no waiter)
    refreshes,        \* provider refreshSession() calls in flight: [fresh, stale]
    signingOut,       \* signOut() calls suspended at `await supabase.auth.signOut()`
    out,              \* effects of the last step, in program order
    step,             \* history: what the last step was (see StepRecord)
    runInj,           \* history: set-token commands injected by the current run of
                      \* consecutive non-forced syncs of one present token
    routeInfo,        \* WebViewScreen: useState routeInfo
    url,              \* WebViewScreen: useState url (the WebView's source)
    isUrlInitialized, \* WebViewScreen: useState isUrlInitialized
    loggingOut,       \* handleLogout calls that have not yet reached setUrl(getLoginUrl())
    lastBackPressRef, \* useSmartBackHandler: lastBackPressRef.current
    now,              \* Date.now()
    exited,           \* BackHandler.exitApp() has been called
    isAndroid,        \* IS_ANDROID: the platform the build runs on
    isLoggingIn,      \* useState isLoggingIn
    signInFlow        \* where the signInWithGoogle() call in flight is suspended

\* The state of the hook useAuth.
hookVars == <<variant, attached, isReady, session, lastSentToken, webReady, resolverRef,
              timers, promise, resolveCalls, unacked, refreshes, signingOut, isLoggingIn,
              signInFlow>>

\* The state of signInWithGoogle().
flowVars == <<isLoggingIn, signInFlow>>

\* The state of the screen WebViewScreen and of useSmartBackHandler.
shellVars == <<routeInfo, url, isUrlInitialized, loggingOut, lastBackPressRef, now,
               exited, isAndroid>>

vars == <<variant, attached, isReady, session, lastSentToken, webReady, resolverRef,
          timers, promise, resolveCalls, unacked, refreshes, signingOut, out, step,
          runInj, routeInfo, url, isUrlInitialized, loggingOut, lastBackPressRef, now,
          exited, isAndroid, isLoggingIn, signInFlow>>


(* ---------------------------------------------------------------------- *)
(* Command sends                                                           *)
(* ---------------------------------------------------------------------- *)

\* Mutant: the force flag is ignored, so every send is deduplicated.
sendTokenToWebViewIgnoresForce(token, force, last) ==
    IF ~attached
    THEN [sent |-> FALSE, last |-> last, cmds |-> <<>>]
    ELSE IF last = token
         THEN [sent |-> FALSE, last |-> last, cmds |-> <<>>]
         ELSE [sent |-> TRUE, last |-> token, cmds |-> <<SetTokenCmd(token)>>]

\* Mutant: the sent token is not recorded in lastSentTokenRef.
sendTokenToWebViewNoRecord(token, force, last) ==
    IF ~attached
    THEN [sent |-> FALSE, last |-> last, cmds |-> <<>>]
    ELSE IF ~force /\ last = token
         THEN [sent |-> FALSE, last |-> last, cmds |-> <<>>]
         ELSE [sent |-> TRUE, last |-> last, cmds |-> <<SetTokenCmd(token)>>]

\* sendTokenToWebView(token, force), with lastSentTokenRef.current = last.
\* Result: the boolean returned, the new lastSentTokenRef, the commands injected.
sendTokenToWebView(token, force, last) ==
    IF ~attached
    THEN [sent |-> FALSE, last |-> last, cmds |-> <<>>]
    ELSE IF ~force /\ last = token
         THEN [sent |-> FALSE, last |-> last, cmds |-> <<>>]
         ELSE [sent |-> TRUE, last |-> token, cmds |-> <<SetTokenCmd(token)>>]

\* sendSessionToWebView(accessToken, refreshToken)
sendSessionToWebView(accessToken, refreshToken) ==
    IF ~attached
    THEN [sent |-> FALSE, cmds |-> <<>>]
    ELSE [sent |-> TRUE, cmds |-> <<SetSessionCmd(accessToken, refreshToken)>>]

\* What a function without a return value hands to its caller.
Undefined == "undefined"

\* clearSessionInWebView(): `if (!webViewRef.current) return;`, else the command
\* is injected and the function ends without a return statement.
clearSessionInWebView ==
    [returned |-> Undefined, cmds |-> IF ~attached THEN <<>> ELSE <<ClearSessionCmd>>]

\* sendCommand(webViewRef, command): void, of the bridge:
\* `webViewRef.current?.injectJavaScript(toInjectable(command))`.
sendCommand(command) ==
    [returned |-> Undefined, cmds |-> IF ~attached THEN <<>> ELSE <<command>>]

(* ---------------------------------------------------------------------- *)
(* Confirmation waiters                                                    *)
(* A waiter state W is [ref, timers, promise, resolveCalls, results]:       *)
(* the slot, the armed timers, the promises, and the values the promises   *)
(* settled with during the step being taken.                               *)
(* ---------------------------------------------------------------------- *)

WaiterState == [ref |-> resolverRef, timers |-> timers, promise |-> promise,
                resolveCalls |-> resolveCalls, results |-> {}]

Bump(n) == IF n < 2 THEN n + 1 ELSE 2

\* resolve(value) of waiter w's promise: only the first call settles it and
\* hands `value` to whoever awaits it.
Resolve(W, w, value) ==
    [W EXCEPT !.promise[w] = "settled",
              !.resolveCalls[w] = Bump(@),
              !.results = IF W.promise[w] = "pending" THEN @ \cup {<<w, value>>} ELSE @]

\* Mutant: the stored resolver leaves its timer armed.
CallResolverKeepsTimer(W, success) ==
    LET w == W.ref
    IN  Resolve([W EXCEPT !.ref = Null], w, success)

\* The resolver stored in the slot for waiter W.ref, called with `success`.
CallResolver(W, success) ==
    LET w == W.ref
    IN  Resolve([W EXCEPT !.timers = @ \ {w}, !.ref = Null], w, success)

\* Mutant: the timer callback resolves its waiter but leaves the slot as it is.
TimeoutCallbackKeepsSlot(W, w) ==
    Resolve([W EXCEPT !.timers = @ \ {w}], w, "false")

\* Mutant: the timer callback empties the slot but never resolves the waiter.
TimeoutCallbackNoResolve(W, w) ==
    [W EXCEPT !.timers = @ \ {w}, !.ref = Null]

\* The setTimeout callback of waiter w.
TimeoutCallback(W, w) ==
    Resolve([W EXCEPT !.timers = @ \ {w}, !.ref = Null], w, "false")

Issued(W) == {w \in Waiters : W.promise[w] # "unissued"}

CanIssue == Cardinality(Issued(WaiterState)) < MaxCalls

NextWaiter(W) == Cardinality(Issued(W)) + 1

\* Mutant: the previous waiter is overwritten without being cancelled.
RegisterNoCancel(W) ==
    LET n == Cardinality({w \in Waiters : W.promise[w] # "unissued"}) + 1
    IN  [W EXCEPT !.promise[n] = "pending", !.timers = @ \cup {n}, !.ref = n]

\* Steps common to both send-and-wait functions up to the send:
\* cancel the previous waiter, arm the timer, store the resolver.
Register(W) ==
    LET W1 == IF W.ref # Null THEN CallResolver(W, "false") ELSE W
        n  == NextWaiter(W)
    IN  [W1 EXCEPT !.promise[n] = "pending", !.timers = @ \cup {n}, !.ref = n]

\* Mutant: a failed send empties the slot and leaves the waiter unresolved.
SendFailedNoResolve(W, n) ==
    [W EXCEPT !.timers = @ \ {n}, !.ref = Null]

\* `if (!sent) { clearTimeout; ref = null; resolve(false) }` for waiter n.
SendFailed(W, n) ==
    Resolve([W EXCEPT !.timers = @ \ {n}, !.ref = Null], n, "false")

\* Mutant: after a failed send the waiter is left to its timer.
sendTokenAndWaitConfirmationWaitsOnFailure(token, W, last) ==
    LET n  == NextWaiter(W)
        W2 == Register(W)
        r  == sendTokenToWebView(token, TRUE, last)
    IN  [W |-> W2, last |-> r.last, cmds |-> r.cmds, waiter |-> n]

\* sendTokenAndWaitConfirmation(token)
sendTokenAndWaitConfirmation(token, W, last) ==
    LET n  == NextWaiter(W)
        W2 == Register(W)
        r  == sendTokenToWebView(token, TRUE, last)
    IN  [W |-> IF r.sent THEN W2 ELSE SendFailed(W2, n),
         last |-> r.last, cmds |-> r.cmds, waiter |-> n]

\* syncSessionToWebView(currentSession)
syncSessionToWebView(currentSession, W) ==
    IF currentSession = NoSession
    THEN [W |-> W, cmds |-> clearSessionInWebView.cmds, waiter |-> Null]
    ELSE LET n  == NextWaiter(W)
             W2 == Register(W)
             r  == sendSessionToWebView(currentSession.access_token,
                                        currentSession.refresh_token)
         IN  [W |-> IF r.sent THEN W2 ELSE SendFailed(W2, n),
              cmds |-> r.cmds, waiter |-> n]

\* Pushes among cmds that the content will acknowledge, tagged with their origin.
Acks(cmds, origin) ==
    IF \E i \in 1..Len(cmds) : IsAcked(cmds[i]) THEN {origin} ELSE {}


(* ---------------------------------------------------------------------- *)
(* Bookkeeping shared by the actions                                       *)
(* ---------------------------------------------------------------------- *)

SetWaiters(W) ==
    /\ resolverRef' = W.ref
    /\ timers' = W.timers
    /\ promise' = W.promise
    /\ resolveCalls' = W.resolveCalls

KeepWaiters == UNCHANGED <<resolverRef, timers, promise, resolveCalls>>

\* History of the step: the operation; the kind of input it was given (the
\* provider's event, the outcome of the refresh); whether the token it had to
\* deliver was already recorded in lastSentTokenRef; the push a handled
\* confirmation answers; whether a handled refresh result had been superseded;
\* the waiter whose stored resolver or timer callback the step ran; the values
\* the step settled promises with.
StepRecord(op, arg, dup, origin, stale, target, results) ==
    [op |-> op, arg |-> arg, dup |-> dup, origin |-> origin, stale |-> stale,
     target |-> target, results |-> results]

\* The kind of a provider event, as the callback tells them apart: the events
\* that reset lastSentTokenRef, and the others.
EventKind(event) ==
    IF event \in {"SIGNED_IN", "TOKEN_REFRESHED"} THEN "signInOrRefresh" ELSE "other"

\* The kind of a refresh outcome: an error result and a throw both fail.
OutcomeKind(outcome) == IF outcome.kind = "ok" THEN "ok" ELSE "failed"

\* lastSentTokenRef.current === the access token of s
AlreadySent(s) == s # NoSession /\ lastSentToken = s.access_token

\* The waiter a send-and-wait call finds in the slot and cancels (Null if none,
\* or if the step makes no such call).
Cancelled(calls) == IF calls THEN resolverRef ELSE Null

\* The promise values a session sync settles, if the step makes one.
Settled(calls, currentSession) ==
    IF calls THEN syncSessionToWebView(currentSession, WaiterState).W.results ELSE {}

DidWith(op, arg, dup, origin, stale, target, results) ==
    /\ step' = StepRecord(op, arg, dup, origin, stale, target, results)
    /\ runInj' = 0

Did(op, origin, stale, target, results) ==
    DidWith(op, Null, FALSE, origin, stale, target, results)

\* A sign-out (signOut() or the provider's SIGNED_OUT) supersedes the refreshes
\* in flight: their results now belong to a credential state that is gone.
Supersede(r) == [fresh |-> 0, stale |-> r.stale + r.fresh]

(* ---------------------------------------------------------------------- *)
(* Initial state: the hook has been constructed, nothing has resolved yet. *)
(* ---------------------------------------------------------------------- *)
InitHook ==
    /\ variant \in Variants
    /\ attached = FALSE
    /\ isReady = FALSE
    /\ session = NoSession
    /\ lastSentToken = Null
    /\ webReady = FALSE
    /\ resolverRef = Null
    /\ timers = {}
    /\ promise = [w \in Waiters |-> "unissued"]
    /\ resolveCalls = [w \in Waiters |-> 0]
    /\ unacked = {}
    /\ refreshes = [fresh |-> 0, stale |-> 0]
    /\ signingOut = 0
    /\ isLoggingIn = FALSE
    /\ signInFlow = "idle"
    /\ out = <<>>
    /\ step = StepRecord("init", Null, FALSE, Null, FALSE, Null, {})
    /\ runInj = 0

\* The screen before its first render commits.  Date.now() is far beyond the
\* exit window, so the clock starts at the first value for which a press is not
\* within the window of lastBackPressRef's initial 0.
InitShell ==
    /\ routeInfo = DEFAULT_ROUTE_INFO
    /\ url = getInitialUrl
    /\ isUrlInitialized = FALSE
    /\ loggingOut = 0
    /\ lastBackPressRef = 0
    /\ now = DOUBLE_TAP_EXIT_DELAY
    /\ exited = FALSE

\* The hook on the platform the app targets.
Init ==
    /\ InitHook
    /\ InitShell
    /\ isAndroid = TRUE

(* ---------------------------------------------------------------------- *)
(* Actions                                                                 *)
(* ---------------------------------------------------------------------- *)

\* What getSession() resolves with: { data: { session }, error }.  A lookup
\* that fails resolves with an error and no session.
LookupOutcomes == {[kind |-> "ok", session |-> s] : s \in Sessions \cup {NoSession}}
                  \cup {[kind |-> "error", session |-> NoSession]}

\* Mutant: isReady is set only when the lookup found a session.
IsReadyOnlyWithSession(outcome) == outcome.session # NoSession

\* `setIsReady(true)` in the continuation of getSession(), for every outcome.
IsReadyAfterLookup(outcome) == TRUE

\* supabase.auth.getSession().then(...): the initial credential lookup settles.
GetSessionResolved(outcome) ==
    /\ ~isReady
    /\ session' = outcome.session
    /\ isReady' = IsReadyAfterLookup(outcome)
    /\ LET currentSession == outcome.session
           r == IF variant = "token" /\ currentSession.access_token # Null
                THEN sendTokenToWebView(currentSession.access_token, FALSE, lastSentToken)
                ELSE [sent |-> FALSE, last |-> lastSentToken, cmds |-> <<>>]
       IN  /\ lastSentToken' = r.last
           /\ out' = r.cmds
           /\ unacked' = unacked \cup Acks(r.cmds, Null)
    /\ KeepWaiters
    /\ DidWith("getSession", outcome.kind, FALSE, Null, FALSE, Null, {})
    /\ UNCHANGED shellVars
    /\ UNCHANGED flowVars
    /\ UNCHANGED <<variant, attached, webReady, refreshes, signingOut>>

\* Mutant: the WebView is rendered before the lookup has settled.
MountBeforeReady ==
    /\ ~attached
    /\ attached' = TRUE
    /\ out' = <<>>
    /\ step' = StepRecord("mount", Null, FALSE, Null, FALSE, Null, {})
    /\ KeepWaiters
    /\ UNCHANGED shellVars
    /\ UNCHANGED flowVars
    /\ UNCHANGED <<variant, isReady, session, lastSentToken, webReady, unacked,
                   refreshes, signingOut, runInj>>

\* The shell renders the WebView once isReady holds; the ref attaches on commit.
Mount ==
    /\ isReady
    /\ ~attached
    /\ attached' = TRUE
    /\ out' = <<>>
    /\ step' = StepRecord("mount", Null, FALSE, Null, FALSE, Null, {})
    /\ KeepWaiters
    /\ UNCHANGED shellVars
    /\ UNCHANGED flowVars
    /\ UNCHANGED <<variant, isReady, session, lastSentToken, webReady, unacked,
                   refreshes, signingOut, runInj>>

\* The provider's change notification: onAuthStateChange callback.
AuthEvents == {"SIGNED_IN", "TOKEN_REFRESHED", "SIGNED_OUT", "INITIAL_SESSION"}

EventSessions(event) ==
    CASE event = "SIGNED_OUT" -> {NoSession}
      [] event = "INITIAL_SESSION" -> Sessions \cup {NoSession}
      [] OTHER -> Sessions

\* Mutant: the notification is pushed like an ordinary, deduplicated sync.
PushOnAuthChangeDeduplicated(event, newSession, last) ==
    sendTokenToWebView(newSession.access_token, FALSE, last)

\* The token build's callback after setSession: lastSentTokenRef is reset on
\* SIGNED_IN / TOKEN_REFRESHED, then the token is pushed with force.
PushOnAuthChange(event, newSession, last) ==
    sendTokenToWebView(newSession.access_token, TRUE,
                       IF event \in {"SIGNED_IN", "TOKEN_REFRESHED"} THEN Null ELSE last)

OnAuthStateChange(event, newSession) ==
    /\ newSession \in EventSessions(event)
    /\ session' = newSession
    /\ refreshes' = IF event = "SIGNED_OUT" THEN Supersede(refreshes) ELSE refreshes
    /\ IF variant = "token"
       THEN LET r == PushOnAuthChange(event, newSession, lastSentToken)
            IN  /\ lastSentToken' = r.last
                /\ out' = r.cmds
                /\ unacked' = unacked \cup Acks(r.cmds, Null)
                /\ KeepWaiters
       ELSE /\ webReady /\ newSession # NoSession => CanIssue
            /\ IF webReady
               THEN LET r == syncSessionToWebView(newSession, WaiterState)
                    IN  /\ SetWaiters(r.W)
                        /\ out' = r.cmds
                        /\ unacked' = unacked \cup Acks(r.cmds, r.waiter)
               ELSE /\ KeepWaiters
                    /\ out' = <<>>
                    /\ UNCHANGED unacked
            /\ UNCHANGED lastSentToken
    /\ DidWith("authStateChange", EventKind(event), AlreadySent(newSession), Null, FALSE,
           Cancelled(variant = "session" /\ webReady /\ newSession # NoSession),
           Settled(variant = "session" /\ webReady, newSession))
    /\ UNCHANGED shellVars
    /\ UNCHANGED flowVars
    /\ UNCHANGED <<variant, attached, isReady, webReady, signingOut>>

\* handleWebMessage, case WEB_READY.
WebReady ==
    /\ attached
    /\ webReady' = TRUE
    /\ IF variant = "token"
       THEN LET r == IF session.access_token # Null
                     THEN sendTokenToWebView(session.access_token, TRUE, lastSentToken)
                     ELSE [sent |-> FALSE, last |-> lastSentToken, cmds |-> <<>>]
            IN  /\ lastSentToken' = r.last
                /\ out' = r.cmds
                /\ unacked' = unacked \cup Acks(r.cmds, Null)
                /\ KeepWaiters
       ELSE /\ session # NoSession => CanIssue
            /\ IF session # NoSession
               THEN LET r == syncSessionToWebView(session, WaiterState)
                    IN  /\ SetWaiters(r.W)
                        /\ out' = r.cmds
                        /\ unacked' = unacked \cup Acks(r.cmds, r.waiter)
               ELSE /\ KeepWaiters
                    /\ out' = <<>>
                    /\ UNCHANGED unacked
            /\ UNCHANGED lastSentToken
    /\ DidWith("webReady", Null, AlreadySent(session), Null, FALSE,
           Cancelled(variant = "session" /\ session # NoSession),
           Settled(variant = "session", session))
    /\ UNCHANGED shellVars
    /\ UNCHANGED flowVars
    /\ UNCHANGED <<variant, attached, isReady, session, refreshes, signingOut>>


\* message.success of a confirmation, as the content may send it.
SuccessValues == IF variant = "token" THEN {"true", "false", "undefined"}
                 ELSE {"true", "false"}

\* `message.success ?? true`
Coalesce(success) == IF success = "undefined" THEN "true" ELSE success

\* handleWebMessage, case TOKEN_RECEIVED / SESSION_SET: the content
\* acknowledges the push `origin` it received earlier.
Confirm(origin, success) ==
    /\ attached
    /\ origin \in unacked
    /\ unacked' = unacked \ {origin}
    /\ IF resolverRef # Null
       THEN SetWaiters(CallResolver(WaiterState,
                IF variant = "token" THEN Coalesce(success) ELSE success))
       ELSE KeepWaiters
    /\ out' = <<>>
    /\ Did("confirm", origin, FALSE, resolverRef,
           IF resolverRef # Null
           THEN CallResolver(WaiterState,
                    IF variant = "token" THEN Coalesce(success) ELSE success).results
           ELSE {})
    /\ UNCHANGED shellVars
    /\ UNCHANGED flowVars
    /\ UNCHANGED <<variant, attached, isReady, session, lastSentToken, webReady,
                   refreshes, signingOut>>

\* handleWebMessage, case REQUEST_TOKEN_REFRESH / REQUEST_SESSION_REFRESH:
\* refreshAndSync* runs up to `await supabase.auth.refreshSession()`.
RequestRefresh ==
    /\ attached
    /\ refreshes.fresh + refreshes.stale < MaxRefresh
    /\ refreshes' = [refreshes EXCEPT !.fresh = @ + 1]
    /\ out' = <<ProviderRefresh>>
    /\ KeepWaiters
    /\ Did("requestRefresh", Null, FALSE, Null, {})
    /\ UNCHANGED shellVars
    /\ UNCHANGED flowVars
    /\ UNCHANGED <<variant, attached, isReady, session, lastSentToken, webReady,
                   unacked, signingOut>>

\* What refreshSession() can settle with: an error result, a thrown exception,
\* no session, or a session.
RefreshOutcomes == {[kind |-> "error", session |-> NoSession],
                    [kind |-> "throw", session |-> NoSession],
                    [kind |-> "ok", session |-> NoSession]}
                   \cup {[kind |-> "ok", session |-> s] : s \in Sessions}

\* Mutant: a failed refresh makes the host sign out.
RefreshFailedSignsOut(outcome) == <<ProviderSignOut>>

\* The failure paths of refreshAndSync*: `if (error) { console.error(...); return }`
\* and `catch (e) { console.error(...) }`.  Result: the effects on the outside.
RefreshFailed(outcome) == <<>>

\* refreshAndSyncToken / refreshAndSyncSession after the await.
RefreshSettled(stale, outcome) ==
    /\ IF stale THEN refreshes.stale > 0 ELSE refreshes.fresh > 0
    /\ refreshes' = IF stale THEN [refreshes EXCEPT !.stale = @ - 1]
                    ELSE [refreshes EXCEPT !.fresh = @ - 1]
    /\ LET deliver == outcome.kind = "ok" /\ outcome.session # NoSession
           silent  == IF outcome.kind = "ok" THEN <<>> ELSE RefreshFailed(outcome)
       IN  IF variant = "token"
           THEN LET r == IF deliver
                         THEN sendTokenToWebView(outcome.session.access_token, TRUE,
                                                 lastSentToken)
                         ELSE [sent |-> FALSE, last |-> lastSentToken, cmds |-> silent]
                IN  /\ lastSentToken' = r.last
                    /\ out' = r.cmds
                    /\ unacked' = unacked \cup Acks(r.cmds, Null)
                    /\ KeepWaiters
           ELSE /\ deliver => CanIssue
                /\ IF deliver
                   THEN LET r == syncSessionToWebView(outcome.session, WaiterState)
                        IN  /\ SetWaiters(r.W)
                            /\ out' = r.cmds
                            /\ unacked' = unacked \cup Acks(r.cmds, r.waiter)
                   ELSE /\ KeepWaiters
                        /\ out' = silent
                        /\ UNCHANGED unacked
                /\ UNCHANGED lastSentToken
    /\ DidWith("refreshSettled", OutcomeKind(outcome), FALSE, Null, stale,
           Cancelled(variant = "session" /\ outcome.kind = "ok"
                     /\ outcome.session # NoSession),
           Settled(variant = "session" /\ outcome.kind = "ok", outcome.session))
    /\ UNCHANGED shellVars
    /\ UNCHANGED flowVars
    /\ UNCHANGED <<variant, attached, isReady, session, webReady, signingOut>>

\* signOut() up to its `await supabase.auth.signOut()`: the hook's part.
SignOutCalled ==
    /\ signingOut < MaxSignOut
    /\ signingOut' = signingOut + 1
    /\ refreshes' = Supersede(refreshes)
    /\ IF variant = "token"
       THEN /\ out' = <<ProviderSignOut>>
            /\ UNCHANGED webReady
       ELSE /\ out' = clearSessionInWebView.cmds \o <<ProviderSignOut>>
            /\ webReady' = FALSE
    /\ KeepWaiters
    /\ Did("signOut", Null, FALSE, Null, {})
    /\ UNCHANGED <<variant, attached, isReady, session, lastSentToken, unacked>>

\* signOut() called on the hook.
SignOut ==
    /\ SignOutCalled
    /\ UNCHANGED shellVars
    /\ UNCHANGED flowVars

\* signOut() after the await: the rest of the function.
SignOutResumed ==
    /\ signingOut > 0
    /\ signingOut' = signingOut - 1
    /\ IF variant = "token"
       THEN LET r == sendTokenToWebView(Null, TRUE, Null)
            IN  /\ lastSentToken' = r.last
                /\ webReady' = FALSE
                /\ out' = r.cmds
                /\ unacked' = unacked \cup Acks(r.cmds, Null)
       ELSE /\ out' = <<>>
            /\ UNCHANGED <<lastSentToken, webReady, unacked>>
    /\ KeepWaiters
    /\ Did("signOutResumed", Null, FALSE, Null, {})
    /\ UNCHANGED shellVars
    /\ UNCHANGED flowVars
    /\ UNCHANGED <<variant, attached, isReady, session, refreshes>>

\* handleWebMessage, case SESSION_EXPIRED (session build only).
SessionExpired ==
    /\ attached
    /\ variant = "session"
    /\ out' = <<ProviderSignOut>>
    /\ KeepWaiters
    /\ Did("sessionExpired", Null, FALSE, Null, {})
    /\ UNCHANGED shellVars
    /\ UNCHANGED flowVars
    /\ UNCHANGED <<variant, attached, isReady, session, lastSentToken, webReady,
                   unacked, refreshes, signingOut>>

\* syncTokenToWebView(force) (token build only).
SyncTokenToWebView(force) ==
    /\ variant = "token"
    /\ LET r == sendTokenToWebView(session.access_token, force, lastSentToken)
           counted == ~force /\ session # NoSession
       IN  /\ lastSentToken' = r.last
           /\ out' = r.cmds
           /\ unacked' = unacked \cup Acks(r.cmds, Null)
           /\ runInj' = IF counted THEN (IF r.sent THEN Bump(runInj) ELSE runInj) ELSE 0
    /\ step' = StepRecord(IF force THEN "syncForced" ELSE "sync", Null, FALSE,
                          Null, FALSE, Null, {})
    /\ KeepWaiters
    /\ UNCHANGED shellVars
    /\ UNCHANGED flowVars
    /\ UNCHANGED <<variant, attached, isReady, session, webReady, refreshes, signingOut>>

\* sendTokenAndWaitConfirmation(token) (token build only; the hook defines it but
\* has no caller for it, so it is called here with the cached token as every
\* other send is).
SendTokenAndWaitConfirmation(token) ==
    /\ variant = "token"
    /\ CanIssue
    /\ LET r == sendTokenAndWaitConfirmation(token, WaiterState, lastSentToken)
       IN  /\ SetWaiters(r.W)
           /\ lastSentToken' = r.last
           /\ out' = r.cmds
           /\ unacked' = unacked \cup Acks(r.cmds, r.waiter)
    /\ Did("sendAndWait", Null, FALSE, Cancelled(TRUE),
           sendTokenAndWaitConfirmation(token, WaiterState, lastSentToken).W.results)
    /\ UNCHANGED shellVars
    /\ UNCHANGED flowVars
    /\ UNCHANGED <<variant, attached, isReady, session, webReady, refreshes, signingOut>>

\* The confirmation timer of waiter w fires.
Timeout(w) ==
    /\ w \in timers
    /\ SetWaiters(TimeoutCallback(WaiterState, w))
    /\ out' = <<>>
    /\ Did("timeout", Null, FALSE, w, TimeoutCallback(WaiterState, w).results)
    /\ UNCHANGED shellVars
    /\ UNCHANGED flowVars
    /\ UNCHANGED <<variant, attached, isReady, session, lastSentToken, webReady,
                   unacked, refreshes, signingOut>>

Next ==
    \/ \E o \in LookupOutcomes : GetSessionResolved(o)
    \/ Mount
    \/ \E e \in AuthEvents : \E s \in Sessions \cup {NoSession} : OnAuthStateChange(e, s)
    \/ WebReady
    \/ \E o \in {Null} \cup Waiters : \E v \in SuccessValues : Confirm(o, v)
    \/ RequestRefresh
    \/ \E st \in BOOLEAN : \E o \in RefreshOutcomes : RefreshSettled(st, o)
    \/ SignOut
    \/ SignOutResumed
    \/ SessionExpired
    \/ \E f \in BOOLEAN : SyncTokenToWebView(f)
    \/ SendTokenAndWaitConfirmation(session.access_token)
    \/ \E w \in Waiters : Timeout(w)

Spec == Init /\ [][Next]_vars

\* setTimeout: an armed timer that is not cleared does fire.
FairSpec == Spec /\ \A w \in Waiters : WF_vars(Timeout(w))

\* The provider settles the initial getSession() lookup.
LookupSpec == Spec /\ WF_vars(\E o \in LookupOutcomes : GetSessionResolved(o))


(* ====================================================================== *)
(* The screen WebViewScreen and the back handler useSmartBackHandler        *)
(* (src/app/index.tsx 42-309, src/hooks/use-smart-back-handler.ts).         *)
(* The screen reads `session` and `isReady` of the hook and calls its       *)
(* signOut(); ShellSpec runs the screen's handlers and effects together     *)
(* with the steps of the hook that change what the screen reads.            *)
(* ====================================================================== *)

Shown(effects) == IF attached THEN effects ELSE <<>>

DidShell(op, arg) == DidWith(op, arg, FALSE, Null, FALSE, Null, {})

\* Mutant: the start URL is the primary entry whether or not there is a session.
startUrlAlwaysHome(s) == getInitialUrl

\* `const startUrl = session ? getInitialUrl() : getLoginUrl()`
startUrl(s) == IF s # NoSession THEN getInitialUrl ELSE getLoginUrl

\* useEffect [isReady, session, isUrlInitialized]: the start URL is chosen once.
\* Effects run after the render that mounted the WebView has committed.
InitialUrlEffect ==
    /\ ~exited
    /\ attached
    /\ isReady /\ ~isUrlInitialized
    /\ isUrlInitialized' = TRUE
    /\ url' = startUrl(session)
    /\ out' = <<>>
    /\ DidShell("initialUrlEffect", Null)
    /\ UNCHANGED hookVars
    /\ UNCHANGED <<routeInfo, loggingOut, lastBackPressRef, now, exited, isAndroid>>

\* Mutant: the effect redirects to home after a login but leaves the url when
\* the session goes away.
sessionEffectNoLogoutRedirect(s, info, u) ==
    IF s # NoSession /\ (info.path = "/login" \/ IncludesLogin(u))
    THEN [url |-> getInitialUrl, routeInfo |-> DEFAULT_ROUTE_INFO]
    ELSE [url |-> u, routeInfo |-> info]

\* The body of useEffect [session, isReady, isUrlInitialized, routeInfo.path, url]:
\* the url and routeInfo it leaves.
sessionEffect(s, info, u) ==
    IF s # NoSession
    THEN IF info.path = "/login" \/ IncludesLogin(u)
         THEN [url |-> getInitialUrl, routeInfo |-> DEFAULT_ROUTE_INFO]
         ELSE [url |-> u, routeInfo |-> info]
    ELSE IF ~IncludesLogin(u)
         THEN [url |-> getLoginUrl, routeInfo |-> LoginRouteInfo]
         ELSE [url |-> u, routeInfo |-> info]

\* The session effect runs after a render in which one of its dependencies
\* changed; a run that would set what is already there is not a step.
SessionEffect ==
    /\ ~exited
    /\ attached
    /\ isReady /\ isUrlInitialized
    /\ LET r == sessionEffect(session, routeInfo, url)
       IN  /\ <<r.url, r.routeInfo>> # <<url, routeInfo>>
           /\ url' = r.url
           /\ routeInfo' = r.routeInfo
    /\ out' = <<>>
    /\ DidShell("sessionEffect", Null)
    /\ UNCHANGED hookVars
    /\ UNCHANGED <<isUrlInitialized, loggingOut, lastBackPressRef, now, exited, isAndroid>>

\* The navigation events the WebView reports: { url, canGoBack }.
NavStates == [url : Urls, canGoBack : BOOLEAN]

\* Mutant: canGoBack is stored as the WebView reports it.
handleNavigationRawCanGoBack(navState, prev) ==
    LET path == extractPath(navState.url)
    IN  [prev EXCEPT !.path = path, !.isTabRoute = isTabRoute(path),
                     !.isHome = (path = "/"), !.canGoBack = navState.canGoBack]

\* handleNavigation(navState): the RouteInfo that setRouteInfo((prev) => ...) stores.
handleNavigation(navState, prev) ==
    LET path == extractPath(navState.url)
        onTabRoute == isTabRoute(path)
        isHome == path = "/"
    IN  [prev EXCEPT !.path = path, !.isTabRoute = onTabRoute, !.isHome = isHome,
                     !.canGoBack = navState.canGoBack /\ ~isHome]

\* onNavigationStateChange of the mounted WebView.
Navigation(navState) ==
    /\ ~exited
    /\ attached
    /\ routeInfo' = handleNavigation(navState, routeInfo)
    /\ out' = <<>>
    /\ DidShell("navigation", navState)
    /\ UNCHANGED hookVars
    /\ UNCHANGED <<url, isUrlInitialized, loggingOut, lastBackPressRef, now, exited,
                   isAndroid>>

\* handleMessage, case ROUTE_INFO: setRouteInfo(message.payload).
RouteInfoMessage(payload) ==
    /\ ~exited
    /\ attached
    /\ routeInfo' = payload
    /\ out' = <<>>
    /\ DidShell("routeInfo", Null)
    /\ UNCHANGED hookVars
    /\ UNCHANGED <<url, isUrlInitialized, loggingOut, lastBackPressRef, now, exited,
                   isAndroid>>

\* Mutant: the press is delegated to the content and not consumed.
DelegateBackNotConsumed(last) ==
    [consumed |-> FALSE, effects |-> Shown(<<GoBack>>), last |-> last, exit |-> FALSE]

\* Case 1: `webViewRef.current?.goBack(); return true`
DelegateBack(last) ==
    [consumed |-> TRUE, effects |-> Shown(<<GoBack>>), last |-> last, exit |-> FALSE]

\* Mutant: a press that goes home is recorded as a press of the double press.
ForceHomeRecordsPress(last) ==
    [consumed |-> TRUE, effects |-> sendCommand(NavigateHomeCmd).cmds, last |-> now,
     exit |-> FALSE]

\* Mutant: a tab page goes back in the content's history instead of going home.
ForceHomeByGoBack(last) ==
    [consumed |-> TRUE, effects |-> Shown(<<GoBack>>), last |-> last, exit |-> FALSE]

\* Case 2: `navigateToHome(); return true`, through WebViewBridge.navigateHome
\* and sendCommand.
ForceHome(last) ==
    [consumed |-> TRUE, effects |-> sendCommand(NavigateHomeCmd).cmds, last |-> last,
     exit |-> FALSE]

\* Mutant: a press exactly DOUBLE_TAP_EXIT_DELAY after the recorded one exits too.
ShouldExitInclusive(last, t) == t - last <= DOUBLE_TAP_EXIT_DELAY

\* `now - lastBackPressRef.current < DOUBLE_TAP_EXIT_DELAY`
ShouldExit(last, t) == t - last < DOUBLE_TAP_EXIT_DELAY

\* Case 3: exit on the second press of a double press, else record the press
\* and show the notice.
DoubleTapExit(last, t) ==
    IF ShouldExit(last, t)
    THEN [consumed |-> TRUE, effects |-> <<ExitApp>>, last |-> last, exit |-> TRUE]
    ELSE [consumed |-> TRUE, effects |-> IF isAndroid THEN <<ExitToast>> ELSE <<>>,
          last |-> t, exit |-> FALSE]

\* handleBackPress(): the value returned (whether the press is consumed), the
\* effects, the new lastBackPressRef.current and whether the app exits, for the
\* RouteInfo of the current render, lastBackPressRef.current = last and
\* Date.now() = t.
handleBackPress(info, last, t) ==
    IF ~isAndroid
    THEN [consumed |-> FALSE, effects |-> <<>>, last |-> last, exit |-> FALSE]
    ELSE IF ~info.isTabRoute /\ info.canGoBack THEN DelegateBack(last)
    ELSE IF info.isTabRoute /\ ~info.isHome THEN ForceHome(last)
    ELSE DoubleTapExit(last, t)

\* The hardware back button is pressed: the subscribed handleBackPress runs.
BackPress ==
    /\ ~exited
    /\ LET r == handleBackPress(routeInfo, lastBackPressRef, now)
       IN  /\ out' = r.effects
           /\ lastBackPressRef' = r.last
           /\ exited' = r.exit
           /\ DidShell("backPress", IF r.consumed THEN "consumed" ELSE "notConsumed")
    /\ UNCHANGED hookVars
    /\ UNCHANGED <<routeInfo, url, isUrlInitialized, loggingOut, now, isAndroid>>

\* Time passes.
Tick ==
    /\ ~exited
    /\ now < MaxTime
    /\ now' = now + 1
    /\ out' = <<>>
    /\ DidShell("tick", Null)
    /\ UNCHANGED hookVars
    /\ UNCHANGED <<routeInfo, url, isUrlInitialized, loggingOut, lastBackPressRef,
                   exited, isAndroid>>

\* handleMessage, case LOGOUT: handleLogout up to `await signOut()`, which runs
\* the hook's signOut() up to its own await.
HandleLogout ==
    /\ ~exited
    /\ attached
    /\ loggingOut < MaxSignOut
    /\ SignOutCalled
    /\ loggingOut' = loggingOut + 1
    /\ UNCHANGED flowVars
    /\ UNCHANGED <<routeInfo, url, isUrlInitialized, lastBackPressRef, now, exited,
                   isAndroid>>

CookieGet == Effect("CookieManager.get", Null, Null)

CookieClear == Effect("CookieManager.clearByName", Null, Null)

\* How the cookie cleanup goes: CookieManager.get() rejects, there is no cookie,
\* a cookie is cleared, or CookieManager.clearByName() rejects.
CookieOutcomes == {"getFailed", "none", "cleared", "clearFailed"}

\* The calls the cleanup makes.  `try { ... } catch { console.log(...) }`: a
\* rejection ends the cleanup and nothing else.
cookieCleanup(outcome) ==
    IF outcome \in {"getFailed", "none"} THEN <<CookieGet>> ELSE <<CookieGet, CookieClear>>

\* Mutant: the rest of handleLogout runs without waiting for signOut().
SignOutAwaitedNever == loggingOut > 0

\* `await signOut()` of a handleLogout call in flight has resolved: the hook's
\* signOut() calls resolve in the order they were made.
SignOutAwaited == loggingOut > signingOut

\* handleLogout after `await signOut()`: the cookie cleanup, then
\* setUrl(getLoginUrl()); setRouteInfo({...DEFAULT_ROUTE_INFO, ...}).
LogoutFinished(cookies) ==
    /\ ~exited
    /\ SignOutAwaited
    /\ loggingOut' = loggingOut - 1
    /\ url' = getLoginUrl
    /\ routeInfo' = LoginRouteInfo
    /\ out' = cookieCleanup(cookies)
    /\ DidShell("logoutFinished", cookies)
    /\ UNCHANGED hookVars
    /\ UNCHANGED <<isUrlInitialized, lastBackPressRef, now, exited, isAndroid>>

\* The screen starts on either platform.  It imports the hook of
\* src/hooks/use-auth.ts.
ShellInit ==
    /\ InitHook
    /\ variant = "token"
    /\ InitShell
    /\ isAndroid \in BOOLEAN

\* The sessions the provider hands out while the screen is looked at: the screen
\* reads only whether there is one.
ShellSessions == {MkSession(1), NoSession}

ShellLookupOutcomes == {o \in LookupOutcomes : o.session \in ShellSessions}

ShellNext ==
    \/ \E o \in ShellLookupOutcomes : ~exited /\ GetSessionResolved(o)
    \/ ~exited /\ Mount
    \/ \E e \in AuthEvents : \E s \in ShellSessions :
           ~exited /\ OnAuthStateChange(e, s)
    \/ ~exited /\ SignOutResumed
    \/ InitialUrlEffect
    \/ SessionEffect
    \/ \E n \in NavStates : Navigation(n)
    \/ \E payload \in RouteInfos : RouteInfoMessage(payload)
    \/ BackPress
    \/ Tick
    \/ HandleLogout
    \/ \E c \in CookieOutcomes : LogoutFinished(c)

ShellSpec == ShellInit /\ [][ShellNext]_vars

(* ====================================================================== *)
(* Sign-in: signInWithGoogle() (src/hooks/use-auth.ts 225-312, the same     *)
(* code at src/app/index.tsx 579-666), its caller handleNativeLogin         *)
(* (src/app/index.tsx 105-121) and the route AuthCallback                   *)
(* (src/app/auth/callback.tsx).                                             *)
(* ====================================================================== *)

\* `params.get(k)` of a parameter that is missing (null) or empty: falsy.
Absent == ""

\* The credential parameters of one component (fragment or query) of a callback
\* URL, every value present being `v`.
CallbackParams(v) ==
    [access_token : {Absent, v}, refresh_token : {Absent, v}, code : {Absent, v}]

NoParams == [access_token |-> Absent, refresh_token |-> Absent, code |-> Absent]

\* `url.hash` is "" : the URL has no fragment.
NoFragment == [access_token |-> Absent, refresh_token |-> Absent, code |-> Absent,
               present |-> FALSE]

\* A fragment with the parameters p (possibly none of the three).
Fragment(p) == [access_token |-> p.access_token, refresh_token |-> p.refresh_token,
                code |-> p.code, present |-> TRUE]

\* The callback URLs: fragment values are "f", query values are "q".
CallbackUrls ==
    [kind : {"url"},
     hash : {NoFragment} \cup {Fragment(p) : p \in CallbackParams("f")},
     search : CallbackParams("q")]

\* A callback URL that `new URL()` rejects.
MalformedCallback == [kind |-> "malformed", hash |-> NoFragment, search |-> NoParams]

\* No URL at all: `result.url` is missing, Linking.getInitialURL() gives null.
NoUrl == [kind |-> "missing", hash |-> NoFragment, search |-> NoParams]

\* What the parameters found lead to: setSession with the token pair,
\* exchangeCodeForSession with the code, or nothing usable.
Credential(accessToken, refreshToken, code) ==
    IF accessToken # Absent /\ refreshToken # Absent
    THEN [path |-> "tokens", access_token |-> accessToken,
          refresh_token |-> refreshToken, code |-> Absent]
    ELSE IF code # Absent
    THEN [path |-> "code", access_token |-> Absent, refresh_token |-> Absent,
          code |-> code]
    ELSE [path |-> "none", access_token |-> Absent, refresh_token |-> Absent,
          code |-> Absent]

\* signInWithGoogle: `new URLSearchParams(url.hash.startsWith('#') ?
\* url.hash.substring(1) : url.search)`, then params.get(...) of the three.
extractInSignIn(u) ==
    LET params == IF u.hash.present THEN u.hash ELSE u.search
    IN  Credential(params.access_token, params.refresh_token, params.code)

\* `a || b`
Or(a, b) == IF a # Absent THEN a ELSE b

\* AuthCallback: `hashParams.get(k) || queryParams.get(k)` for each of the three.
extractInCallback(u) ==
    Credential(Or(u.hash.access_token, u.search.access_token),
               Or(u.hash.refresh_token, u.search.refresh_token),
               Or(u.hash.code, u.search.code))

ProviderSignInWithOAuth == Effect("provider.signInWithOAuth", Null, Null)

OpenAuthSession == Effect("WebBrowser.openAuthSessionAsync", Null, Null)

ProviderSetSession(accessToken, refreshToken) ==
    Effect("provider.setSession", accessToken, refreshToken)

ProviderExchangeCode(code) == Effect("provider.exchangeCodeForSession", code, Null)

LoginErrorCmd == Effect("LOGIN_ERROR", Null, Null)

RouterReplace == Effect("router.replace", Null, Null)

\* The provider call a credential leads to.
CredentialCall(c) ==
    IF c.path = "tokens" THEN <<ProviderSetSession(c.access_token, c.refresh_token)>>
    ELSE IF c.path = "code" THEN <<ProviderExchangeCode(c.code)>>
    ELSE <<>>

\* History of a sign-in step: the await it resumed from, what was handed to it,
\* the credential extracted from a callback URL (Null if none was looked at),
\* and how signInWithGoogle() ended in this step: "pending" (suspended at an
\* await), "returned", "threw".
SignInRecord(input, credential, end) ==
    [at |-> signInFlow, input |-> input, credential |-> credential, end |-> end]

\* signInWithGoogle() up to `await supabase.auth.signInWithOAuth(...)`.  One
\* call is followed at a time.
SignInCalled ==
    /\ signInFlow = "idle"
    /\ isLoggingIn' = TRUE
    /\ signInFlow' = "urlRequested"
    /\ out' = <<ProviderSignInWithOAuth>>
    /\ KeepWaiters
    /\ DidWith("signIn", SignInRecord(Null, Null, "pending"), FALSE, Null, FALSE, Null, {})
    /\ UNCHANGED <<variant, attached, isReady, session, lastSentToken, webReady,
                   unacked, refreshes, signingOut>>

\* handleMessage, case REQUEST_LOGIN: handleNativeLogin calls signInWithGoogle().
HandleNativeLogin ==
    /\ attached
    /\ SignInCalled
    /\ UNCHANGED shellVars

\* signInWithGoogle() ends in this step: `finally { setIsLoggingIn(false) }`; if
\* it threw, the catch block of handleNativeLogin tells the content.
SignInEnded(input, credential, threw) ==
    /\ isLoggingIn' = FALSE
    /\ signInFlow' = "idle"
    /\ out' = IF threw THEN Shown(<<LoginErrorCmd>>) ELSE <<>>
    /\ DidWith("signIn", SignInRecord(input, credential,
                                      IF threw THEN "threw" ELSE "returned"),
               FALSE, Null, FALSE, Null, {})

\* signInWithGoogle() goes on to its next await.
SignInSuspended(input, credential, at, calls) ==
    /\ isLoggingIn' = isLoggingIn
    /\ signInFlow' = at
    /\ out' = calls
    /\ DidWith("signIn", SignInRecord(input, credential, "pending"),
               FALSE, Null, FALSE, Null, {})

\* What signInWithOAuth() resolves with: an error, data without a url, a url.
OAuthUrlOutcomes == {"error", "noUrl", "url"}

\* signInWithGoogle() after `await supabase.auth.signInWithOAuth(...)`.
OAuthUrlSettled(outcome) ==
    /\ signInFlow = "urlRequested"
    /\ IF outcome = "url"
       THEN SignInSuspended(outcome, Null, "browserOpen", <<OpenAuthSession>>)
       ELSE SignInEnded(outcome, Null, TRUE)
    /\ KeepWaiters
    /\ UNCHANGED shellVars
    /\ UNCHANGED <<variant, attached, isReady, session, lastSentToken, webReady,
                   unacked, refreshes, signingOut>>

\* What openAuthSessionAsync() resolves with.
BrowserResults ==
    {[type |-> "success", url |-> u] : u \in CallbackUrls \cup {MalformedCallback, NoUrl}}
    \cup {[type |-> t, url |-> NoUrl] : t \in {"cancel", "dismiss"}}

\* Mutant: closing the authorization surface is reported as a failure.
afterBrowserCancelThrows(result) ==
    IF result.type = "success" /\ result.url # NoUrl
    THEN IF result.url.kind = "malformed"
         THEN [next |-> "throw", credential |-> Null]
         ELSE LET c == extractInSignIn(result.url)
              IN  [next |-> c.path, credential |-> c]
    ELSE [next |-> "throw", credential |-> Null]

\* signInWithGoogle() after `await WebBrowser.openAuthSessionAsync(...)`: what it
\* does next ("tokens": setSession, "code": exchangeCodeForSession, "none":
\* nothing usable, logged; "done": cancelled or dismissed, logged; "throw").
afterBrowser(result) ==
    IF result.type = "success" /\ result.url # NoUrl
    THEN IF result.url.kind = "malformed"
         THEN [next |-> "throw", credential |-> Null]
         ELSE LET c == extractInSignIn(result.url)
              IN  [next |-> c.path, credential |-> c]
    ELSE [next |-> "done", credential |-> Null]

BrowserSettled(result) ==
    /\ signInFlow = "browserOpen"
    /\ LET r == afterBrowser(result)
       IN  CASE r.next = "tokens" ->
                  SignInSuspended(result, r.credential, "settingSession",
                                  CredentialCall(r.credential))
             [] r.next = "code" ->
                  SignInSuspended(result, r.credential, "exchanging",
                                  CredentialCall(r.credential))
             [] OTHER -> SignInEnded(result, r.credential, r.next = "throw")
    /\ KeepWaiters
    /\ UNCHANGED shellVars
    /\ UNCHANGED <<variant, attached, isReady, session, lastSentToken, webReady,
                   unacked, refreshes, signingOut>>

\* What setSession() / exchangeCodeForSession() resolve with.
CredentialOutcomes == {"ok", "error"}

\* signInWithGoogle() after `await supabase.auth.setSession(...)` or
\* `await supabase.auth.exchangeCodeForSession(code)`.  The session the
\* provider established reaches the hook through onAuthStateChange.
CredentialSettled(outcome) ==
    /\ signInFlow \in {"settingSession", "exchanging"}
    /\ SignInEnded([call |-> signInFlow, outcome |-> outcome], Null, outcome = "error")
    /\ KeepWaiters
    /\ UNCHANGED shellVars
    /\ UNCHANGED <<variant, attached, isReady, session, lastSentToken, webReady,
                   unacked, refreshes, signingOut>>

\* The deep link opens the route AuthCallback: handleCallback() runs with the
\* URL of Linking.getInitialURL().  Provider errors are logged; the route then
\* goes back to the screen.
AuthCallback(u) ==
    /\ LET c == IF u.kind # "url" THEN Credential(Absent, Absent, Absent)
                ELSE extractInCallback(u)
       IN  /\ out' = CredentialCall(c) \o <<RouterReplace>>
           /\ DidWith("authCallback", SignInRecord(u, c, "returned"), FALSE, Null,
                      FALSE, Null, {})
    /\ KeepWaiters
    /\ UNCHANGED shellVars
    /\ UNCHANGED flowVars
    /\ UNCHANGED <<variant, attached, isReady, session, lastSentToken, webReady,
                   unacked, refreshes, signingOut>>

\* The screen on the target platform, before its first render commits.
ScreenInit ==
    /\ Init
    /\ variant = "token"

SignInNext ==
    \/ \E o \in ShellLookupOutcomes : GetSessionResolved(o)
    \/ Mount
    \/ \E e \in AuthEvents : \E s \in ShellSessions : OnAuthStateChange(e, s)
    \/ HandleNativeLogin
    \/ \E o \in OAuthUrlOutcomes : OAuthUrlSettled(o)
    \/ \E r \in BrowserResults : BrowserSettled(r)
    \/ \E o \in CredentialOutcomes : CredentialSettled(o)
    \/ \E u \in CallbackUrls \cup {MalformedCallback, NoUrl} : AuthCallback(u)

SignInSpec == ScreenInit /\ [][SignInNext]_vars

(* ====================================================================== *)
(* Messages from the content: handleMessage of the screen                   *)
(* (src/app/index.tsx 149-173) in front of handleWebMessage of the hook.    *)
(* ====================================================================== *)

\* The message types of the protocol, and one that is not of the protocol.
ProtocolTypes == {"ROUTE_INFO", "LOGOUT", "REQUEST_LOGIN", "WEB_READY", "TOKEN_RECEIVED",
                  "SESSION_SET", "REQUEST_TOKEN_REFRESH", "REQUEST_SESSION_REFRESH",
                  "SESSION_EXPIRED"}

\* The types the protocol addresses to the hook.
SynchronizerTypes == {"WEB_READY", "TOKEN_RECEIVED", "SESSION_SET", "REQUEST_TOKEN_REFRESH",
                      "REQUEST_SESSION_REFRESH", "SESSION_EXPIRED"}

\* event.nativeEvent.data: text that JSON.parse rejects, JSON for null (reading
\* `.type` of it throws), or a message object with a type.
NotJson == [parses |-> FALSE, isObject |-> FALSE, type |-> "?"]

JsonNull == [parses |-> TRUE, isObject |-> FALSE, type |-> "?"]

Msg(type) == [parses |-> TRUE, isObject |-> TRUE, type |-> type]

MessageData == {NotJson, JsonNull} \cup {Msg(t) : t \in ProtocolTypes \cup {"FOO"}}

\* The switch of handleMessage: the handler a message type is given to.
dispatch(type) ==
    CASE type = "ROUTE_INFO" -> "setRouteInfo"
      [] type = "LOGOUT" -> "handleLogout"
      [] type = "REQUEST_LOGIN" -> "handleNativeLogin"
      [] type \in {"WEB_READY", "TOKEN_RECEIVED", "REQUEST_TOKEN_REFRESH"} -> "handleWebMessage"
      [] OTHER -> "ignored"

\* Mutant: handleMessage without its try / catch.
handleMessageNoCatch(data) ==
    IF ~data.parses \/ ~data.isObject THEN "threw" ELSE dispatch(data.type)

\* handleMessage(event): `try { JSON.parse; switch } catch { }`.
handleMessage(data) ==
    IF ~data.parses \/ ~data.isObject THEN "ignored" ELSE dispatch(data.type)

\* The switch of handleWebMessage in the build that runs.
handleWebMessage(type) ==
    IF variant = "token"
    THEN CASE type = "WEB_READY" -> "webReady"
           [] type = "TOKEN_RECEIVED" -> "confirm"
           [] type = "REQUEST_TOKEN_REFRESH" -> "refresh"
           [] OTHER -> "ignored"
    ELSE CASE type = "WEB_READY" -> "webReady"
           [] type = "SESSION_SET" -> "confirm"
           [] type = "REQUEST_SESSION_REFRESH" -> "refresh"
           [] type = "SESSION_EXPIRED" -> "sessionExpired"
           [] OTHER -> "ignored"

\* The ROUTE_INFO payloads followed here: home, and a page under a tab.
MessagePayloads == {DEFAULT_ROUTE_INFO,
                    [path |-> "/ai/detail", isTabRoute |-> FALSE, isHome |-> FALSE,
                     canGoBack |-> TRUE]}

\* The content posts only what the handlers can take in this state: it
\* acknowledges only a push it has received, and the calls a message starts are
\* counted up to their bounds.
Deliverable(data) ==
    /\ data.type \in {"TOKEN_RECEIVED", "SESSION_SET"} => unacked # {}
    /\ data.type \in {"REQUEST_TOKEN_REFRESH", "REQUEST_SESSION_REFRESH"} =>
           refreshes.fresh + refreshes.stale < MaxRefresh
    /\ data.type = "LOGOUT" => loggingOut < MaxSignOut /\ signingOut < MaxSignOut
    /\ data.type = "REQUEST_LOGIN" => signInFlow = "idle"

\* A message that no handler takes: nothing runs.  The history keeps how the
\* handler ended.
MessageIgnored(result) ==
    /\ out' = <<>>
    /\ DidShell("message", result)
    /\ UNCHANGED hookVars
    /\ UNCHANGED shellVars

\* handleWebMessage(message) of the hook.
HandleWebMessage(data) ==
    LET case == handleWebMessage(data.type)
    IN  CASE case = "webReady" -> WebReady
          [] case = "confirm" -> \E o \in unacked : \E v \in SuccessValues : Confirm(o, v)
          [] case = "refresh" -> RequestRefresh
          [] case = "sessionExpired" -> SessionExpired
          [] OTHER -> MessageIgnored("ignoredByHook")

\* window.ReactNativeWebView.postMessage(data) in the mounted WebView:
\* handleMessage(event) runs.
HandleMessage(data) ==
    /\ attached
    /\ Deliverable(data)
    /\ LET handler == handleMessage(data)
       IN  CASE handler = "setRouteInfo" ->
                  \E payload \in MessagePayloads : RouteInfoMessage(payload)
             [] handler = "handleLogout" -> HandleLogout
             [] handler = "handleNativeLogin" -> HandleNativeLogin
             [] handler = "handleWebMessage" -> HandleWebMessage(data)
             [] OTHER -> MessageIgnored(handler)

\* The screen receiving messages: between two messages the provider and the
\* continuations of the hook and of handleLogout take their steps.  The screen
\* never calls sendTokenAndWaitConfirmation, so no waiter is pending here; the
\* sign-in a REQUEST_LOGIN starts is followed in SignInSpec.
MessageNext ==
    \/ \E data \in MessageData : HandleMessage(data)
    \/ \E o \in ShellLookupOutcomes : GetSessionResolved(o)
    \/ Mount
    \/ \E e \in AuthEvents : \E s \in ShellSessions : OnAuthStateChange(e, s)
    \/ \E st \in BOOLEAN : \E o \in RefreshOutcomes : RefreshSettled(st, o)
    \/ SignOutResumed
    \/ \E c \in CookieOutcomes : LogoutFinished(c)

MessageSpec == ScreenInit /\ [][MessageNext]_vars

(* ====================================================================== *)
(* Properties                                                              *)
(* ====================================================================== *)

Pending == {w \in Waiters : promise[w] = "pending"}

IssuedNow == {w \in Waiters : promise[w] # "unissued"}

Commands(effects) == {i \in 1..Len(effects) : IsCommand(effects[i])}

\* The set command that carries the credentials of session s in this build.
SetCommandFor(s) ==
    IF variant = "token" THEN SetTokenCmd(s.access_token)
    ELSE SetSessionCmd(s.access_token, s.refresh_token)

\* C1: in every signOut() of the token build with the content attached and a
\* session cached, the clear command is injected before supabase.auth.signOut() is invoked (and so
\* before the cached session can become absent).  The step that runs signOut()
\* up to its await must therefore show a clear ahead of the provider call.
C1_ClearBeforeInvalidation ==
    (variant = "token" /\ attached /\ session # NoSession /\ step.op = "signOut") =>
        \E i, j \in 1..Len(out) :
            i < j /\ IsClear(out[i]) /\ out[j] = ProviderSignOut

\* C2: a send-and-wait call issued while an earlier waiter is still pending
\* resolves that waiter false in the very step of the call.
C2_SupersededResolvesFalse ==
    [][\A w \in Waiters :
          (promise[w] = "pending" /\ IssuedNow' # IssuedNow) =>
              (promise'[w] = "settled" /\ <<w, "false">> \in step'.results)]_vars

\* C2 witness: the second call has just cancelled the pending first waiter.
C2_Witness ==
    /\ step.target = 1
    /\ step.op \in {"sendAndWait", "webReady", "authStateChange", "refreshSettled"}
    /\ <<1, "false">> \in step.results
    /\ promise[2] # "unissued"

\* C3: at most one waiter is unresolved, and it is the one held in the slot.
C3_SingleWaiterInSlot ==
    /\ Cardinality(Pending) <= 1
    /\ \A w \in Pending : resolverRef = w
    /\ resolverRef # Null => resolverRef \in Pending

\* C3 witness: a later waiter occupies the slot after an earlier one was settled.
C3_Witness ==
    /\ resolverRef = 2
    /\ Pending = {2}
    /\ promise[1] = "settled"


\* C4 (as claimed): a waiter is resolved true only by a confirmation the content
\* emitted in answer to that waiter's own push.
C4_ConfirmationMatchesPush ==
    [][\A w \in Waiters :
          <<w, "true">> \in step'.results =>
              (step'.op = "confirm" /\ step'.origin = w)]_vars

\* C4 (amended): a waiter is resolved true only by a confirmation handled while
\* that waiter is the one held in the slot, whichever push the confirmation
\* answers; a waiter already settled (superseded, timed out, confirmed) is never
\* resolved again by a later confirmation.
C4_ConfirmationResolvesSlotHolder ==
    [][\A w \in Waiters :
          /\ <<w, "true">> \in step'.results =>
                 (step'.op = "confirm" /\ resolverRef = w /\ step'.origin \in unacked)
          /\ promise[w] = "settled" =>
                 /\ promise'[w] = "settled"
                 /\ resolveCalls'[w] = resolveCalls[w]
                 /\ \A p \in step'.results : p[1] # w]_vars

\* C4 witness: a confirmation answering another push has resolved the waiter in
\* the slot true.
C4_Witness ==
    /\ step.op = "confirm"
    /\ step.target # Null
    /\ step.origin # step.target
    /\ <<step.target, "true">> \in step.results

\* C5: the result of a refresh that was superseded while in flight (by signOut()
\* or a provider sign-out) is discarded: no set command is injected.
C5_StaleRefreshDiscarded ==
    (step.op = "refreshSettled" /\ step.stale) =>
        \A i \in 1..Len(out) : ~IsSet(out[i])

\* C6: in the token build a provider change notification pushes to the content
\* only when WebReadyFlag is set.
C6_PushOnlyWhenWebReady ==
    (variant = "token" /\ step.op = "authStateChange" /\ ~webReady) =>
        Commands(out) = {}

\* C7: handling WEB_READY sets WebReadyFlag and, with a cached session and the
\* content attached, injects exactly the set command carrying the cached
\* credentials, whatever lastSentToken held; with no cached session it injects
\* nothing.
C7_WebReadyForceDelivers ==
    [][step'.op = "webReady" =>
          /\ webReady'
          /\ out' = IF session # NoSession /\ attached
                    THEN <<SetCommandFor(session)>> ELSE <<>>]_vars

\* C7 witness: WEB_READY re-delivered a token equal to lastSentToken.
C7_Witness ==
    /\ step.op = "webReady"
    /\ variant = "token"
    /\ session # NoSession
    /\ step.dup
    /\ out = <<SetTokenCmd(session.access_token)>>
    /\ webReady

\* C8: a run of consecutive non-forced syncs of the same present token injects
\* the set-token command at most once.
C8_NonForcedSyncIdempotent ==
    runInj <= 1

\* C8 witness: the second sync of a run was skipped after the first one sent.
C8_Witness ==
    /\ runInj = 1
    /\ out = <<>>
    /\ step.op = "sync"

\* C9: syncing an absent session to attached content always injects the clear
\* command, for either value of force and whatever lastSentToken holds.
C9_ClearNeverDeduplicated ==
    (variant = "token" /\ attached /\ session = NoSession
        /\ step.op \in {"sync", "syncForced"}) =>
        out = <<SetTokenCmd(Null)>>


\* C10: every send-and-wait call eventually resolves, exactly once and with a
\* boolean; a timer that fires resolves its waiter false.  No waiter stays
\* pending forever, and a pending waiter leaves that state only by being settled:
\* one resolve() call, whose value (true or false) the step hands to the caller.
C10_EveryWaiterResolves ==
    /\ \A w \in Waiters : []<>(promise[w] # "pending")
    /\ [](\A w \in Waiters : resolveCalls[w] <= 1
                             /\ (promise[w] = "settled" <=> resolveCalls[w] = 1))
    /\ [](\A p \in step.results : p[2] \in {"true", "false"})
    /\ [][/\ \A w \in Waiters :
                (promise[w] # "settled" /\ promise'[w] = "settled") <=>
                    (\E v \in {"true", "false"} : <<w, v>> \in step'.results)
          /\ \A w \in Waiters :
                promise[w] = "pending" => promise'[w] \in {"pending", "settled"}
          /\ step'.op = "timeout" => <<step'.target, "false">> \in step'.results]_vars

\* C10 witness: a waiter nobody confirmed or superseded was resolved false by
\* its timer.
C10_Witness ==
    /\ step.op = "timeout"
    /\ step.results = {<<step.target, "false">>}
    /\ resolveCalls[step.target] = 1
    /\ resolverRef = Null


\* C11: a content-requested refresh that fails at the provider (an error result
\* or a thrown exception) changes nothing: the cached session, lastSentToken,
\* WebReadyFlag and the confirmation waiters stay as they were, no command is
\* injected, the provider is not asked to sign out and no sign-out is started,
\* however many refreshes failed before.
C11_RefreshFailureSwallowed ==
    [][(step'.op = "refreshSettled" /\ step'.arg = "failed") =>
          /\ out' = <<>>
          /\ UNCHANGED <<session, lastSentToken, webReady, isReady, signingOut,
                         resolverRef, timers, promise, resolveCalls, unacked>>]_vars

\* C11 witness: a refresh has just failed while a session is cached and the
\* content is ready; the session is still cached and the flag still set.
C11_Witness ==
    /\ step.op = "refreshSettled"
    /\ step.arg = "failed"
    /\ session # NoSession
    /\ webReady
    /\ out = <<>>


C13_WebReadyOnlyAfterHandshake ==
    /\ step.op = "init" => ~webReady
    /\ [][/\ webReady' => (step'.op = "webReady" \/ (webReady /\ step'.op # "signOut"))
          /\ step'.op = "signOut" => ~webReady']_vars


\* C14: in the token build, a SIGNED_IN or TOKEN_REFRESHED notification handled
\* while the content is attached injects the set-token command for the new
\* session, also when its access token is the one most recently sent; handled
\* while the content is not attached it leaves lastSentToken cleared.  The end of
\* signOut() clears lastSentToken and pushes the clear command.
C14_RedeliveryOnSignInOrRefresh ==
    [][variant = "token" =>
          /\ (step'.op = "authStateChange"
                 /\ step'.arg = "signInOrRefresh") =>
                 IF attached
                 THEN /\ out' = <<SetTokenCmd(session'.access_token)>>
                      /\ lastSentToken' = session'.access_token
                 ELSE /\ out' = <<>>
                      /\ lastSentToken' = Null
          /\ step'.op = "signOutResumed" =>
                 /\ lastSentToken' = Null
                 /\ out' = IF attached THEN <<SetTokenCmd(Null)>> ELSE <<>>]_vars

\* C14 witness: a SIGNED_IN or TOKEN_REFRESHED carried the token that had just been sent, and
\* the set-token command was injected again.
C14_Witness ==
    /\ variant = "token"
    /\ attached
    /\ step.op = "authStateChange"
    /\ step.arg = "signInOrRefresh"
    /\ step.dup
    /\ out = <<SetTokenCmd(session.access_token)>>


(* ---------------------------------------------------------------------- *)
(* The back handler and the route descriptor                               *)
(* ---------------------------------------------------------------------- *)

\* The step is a back press handled on the target platform.
BackPressed == isAndroid /\ step'.op = "backPress"

\* C15: on the target platform a back press with isTabRoute = false, isHome =
\* false and canGoBack = true tells the content to go back and consumes the
\* event: no NAVIGATE_HOME, no exit, no exit notice, no press recorded.
C15_DelegatesToContentBack ==
    [][(BackPressed /\ ~routeInfo.isTabRoute /\ ~routeInfo.isHome
          /\ routeInfo.canGoBack) =>
          /\ out' = <<GoBack>>
          /\ step'.arg = "consumed"
          /\ ~exited'
          /\ lastBackPressRef' = lastBackPressRef]_vars

\* C15 witness: a press on a page under a tab was delegated.
C15_Witness ==
    /\ isAndroid
    /\ step.op = "backPress"
    /\ routeInfo = [path |-> "/ai/detail", isTabRoute |-> FALSE, isHome |-> FALSE,
                    canGoBack |-> TRUE]
    /\ out = <<GoBack>>

\* C16: on the target platform a back press with isTabRoute = true and isHome =
\* false sends NAVIGATE_HOME (to the attached content) and consumes the event,
\* for both values of canGoBack; the content's go-back is not invoked and the
\* app does not exit.
C16_TabRouteForcesHome ==
    [][(BackPressed /\ routeInfo.isTabRoute /\ ~routeInfo.isHome) =>
          /\ out' = IF attached THEN <<NavigateHomeCmd>> ELSE <<>>
          /\ step'.arg = "consumed"
          /\ ~exited'
          /\ lastBackPressRef' = lastBackPressRef]_vars

\* C16 witness: a press on a tab page that could go back was sent home.
C16_Witness ==
    /\ isAndroid
    /\ step.op = "backPress"
    /\ routeInfo.isTabRoute /\ ~routeInfo.isHome /\ routeInfo.canGoBack
    /\ out = <<NavigateHomeCmd>>

\* The RouteInfo sends the press to case 3 of handleBackPress.
FallsToDoubleTap(info) ==
    /\ ~(~info.isTabRoute /\ info.canGoBack)
    /\ ~(info.isTabRoute /\ ~info.isHome)

\* C17: on the target platform a back press on the home route (isHome = true)
\* that comes DOUBLE_TAP_EXIT_DELAY or more after the last recorded press (or
\* when none was recorded) records the press time, shows the exit notice,
\* consumes the event and does not exit.
C17_FirstPressOnHomeShowsNotice ==
    [][(BackPressed /\ routeInfo.isHome
          /\ now - lastBackPressRef >= DOUBLE_TAP_EXIT_DELAY) =>
          /\ out' = <<ExitToast>>
          /\ lastBackPressRef' = now
          /\ step'.arg = "consumed"
          /\ ~exited']_vars

\* C18: the app exits exactly on a back press handled by case 3 less than
\* DOUBLE_TAP_EXIT_DELAY after a press recorded by case 3; that press consumes
\* the event and shows no notice, and nothing else makes the app exit.
C18_ExitOnlyOnDoublePress ==
    [][/\ (exited' /\ ~exited) <=>
             /\ BackPressed /\ ~exited
             /\ FallsToDoubleTap(routeInfo)
             /\ lastBackPressRef > 0
             /\ now - lastBackPressRef < DOUBLE_TAP_EXIT_DELAY
       /\ (exited' /\ ~exited) =>
             /\ out' = <<ExitApp>>
             /\ step'.arg = "consumed"
             /\ lastBackPressRef' = lastBackPressRef
       /\ exited => exited'
       /\ lastBackPressRef' # lastBackPressRef =>
             /\ BackPressed /\ FallsToDoubleTap(routeInfo)
             /\ lastBackPressRef' = now
             /\ out' = <<ExitToast>>]_vars

\* C18 witness: the app has exited on the second press of a double press.
C18_Witness ==
    /\ exited
    /\ step.op = "backPress"
    /\ out = <<ExitApp>>
    /\ lastBackPressRef > 0
    /\ now - lastBackPressRef < DOUBLE_TAP_EXIT_DELAY

\* C19: the RouteInfo never has isHome = true together with canGoBack = true,
\* so a back press on the home route is never delegated to the content.
C19_HomeNeverGoesBack ==
    routeInfo.isHome => ~routeInfo.canGoBack

Noise == {NotJson, JsonNull, Msg("FOO")}

\* C21: a payload that fails to parse, or that parses to a message of an unknown
\* type, is ignored by handleMessage: nothing is thrown, no handler runs, no
\* command is injected, and the route info, the destination URL, the cached
\* session, the web-ready flag, the last sent token and the confirmation slot
\* are unchanged.
C21_NoiseIgnored ==
    [][\A data \in Noise : HandleMessage(data) =>
          /\ step'.op = "message"
          /\ step'.arg = "ignored"
          /\ out' = <<>>
          /\ UNCHANGED <<routeInfo, url, isUrlInitialized, session, webReady,
                         lastSentToken, resolverRef, timers, promise, refreshes,
                         signingOut, loggingOut, isLoggingIn, signInFlow>>]_vars

\* C21 witness: a payload was ignored while a session was cached and delivered.
C21_Witness ==
    /\ step.op = "message"
    /\ step.arg = "ignored"
    /\ session # NoSession
    /\ webReady
    /\ lastSentToken = session.access_token

\* C22: every message type the protocol addresses to the hook is handed by
\* handleMessage to handleWebMessage and taken there: a confirmation settles the
\* pending waiter, SESSION_EXPIRED signs out at the provider.
C22_SynchronizerMessagesForwarded ==
    [][\A t \in SynchronizerTypes : HandleMessage(Msg(t)) =>
          /\ step'.op # "message"
          /\ (t \in {"TOKEN_RECEIVED", "SESSION_SET"} /\ resolverRef # Null) =>
                 promise'[resolverRef] = "settled"
          /\ t = "SESSION_EXPIRED" => out' = <<ProviderSignOut>>]_vars

\* C23: a send made while the WebView is not attached injects nothing, leaves
\* lastSentTokenRef as it was and hands `false` to its caller, whichever send it
\* is: sendTokenToWebView, sendSessionToWebView, clearSessionInWebView, or the
\* bridge's sendCommand.
C23_DetachedSendReportsFailure ==
    ~attached =>
        /\ \A t \in Tokens \cup {Null} : \A force \in BOOLEAN :
               LET r == sendTokenToWebView(t, force, lastSentToken)
               IN  r.sent = FALSE /\ r.cmds = <<>> /\ r.last = lastSentToken
        /\ \A s \in Sessions :
               LET r == sendSessionToWebView(s.access_token, s.refresh_token)
               IN  r.sent = FALSE /\ r.cmds = <<>>
        /\ clearSessionInWebView.cmds = <<>>
        /\ clearSessionInWebView.returned = "false"
        /\ sendCommand(NavigateHomeCmd).cmds = <<>>
        /\ sendCommand(NavigateHomeCmd).returned = "false"

\* C24: the start URL is chosen at most once, by the initial-URL effect, and only
\* when the hook is ready: it is the primary entry URL if a session is cached at
\* that moment and the login URL otherwise; isUrlInitialized changes in no other
\* step, never goes back to false, and is false as long as the hook is not ready.
C24_StartUrlResolvedOnce ==
    [][/\ isUrlInitialized' # isUrlInitialized => step'.op = "initialUrlEffect"
       /\ step'.op = "initialUrlEffect" =>
              /\ isReady
              /\ ~isUrlInitialized
              /\ isUrlInitialized'
              /\ session' = session
              /\ url' = IF session # NoSession THEN getInitialUrl ELSE getLoginUrl
       /\ isUrlInitialized => isUrlInitialized'
       /\ ~isReady' => ~isUrlInitialized']_vars

\* C24 witness: the effect has run with no session cached and chose the login URL.
C24_Witness ==
    /\ step.op = "initialUrlEffect"
    /\ isUrlInitialized
    /\ session = NoSession
    /\ url = getLoginUrl

\* C25: once the start URL is chosen, the session effect sends a screen without
\* a session to the login URL whatever its url and route were, and sends a screen
\* with a session that shows the login page (by its url or its route) to the
\* primary entry URL; it changes nothing else.  In every state without a session
\* whose url is not a login URL the effect's body sets the login URL, so the
\* effect never leaves the screen there.
C25_SessionEffectRedirects ==
    [][/\ step'.op = "sessionEffect" =>
              /\ isReady /\ isUrlInitialized
              /\ session' = session
              /\ session = NoSession =>
                     /\ ~IncludesLogin(url)
                     /\ url' = getLoginUrl
                     /\ routeInfo' = LoginRouteInfo
              /\ session # NoSession =>
                     /\ routeInfo.path = "/login" \/ IncludesLogin(url)
                     /\ url' = getInitialUrl
                     /\ routeInfo' = DEFAULT_ROUTE_INFO
       /\ (/\ attached' /\ ~exited' /\ isReady' /\ isUrlInitialized'
           /\ session' = NoSession /\ step'.op = "sessionEffect") => IncludesLogin(url')
       /\ (/\ isReady /\ isUrlInitialized
           /\ session = NoSession /\ ~IncludesLogin(url)) =>
              sessionEffect(session, routeInfo, url).url = getLoginUrl
       /\ (/\ isReady /\ isUrlInitialized
           /\ session # NoSession /\ (routeInfo.path = "/login" \/ IncludesLogin(url))) =>
              sessionEffect(session, routeInfo, url).url = getInitialUrl]_vars

\* C25 witness: the session went away on a page of the content and the effect
\* sent the screen to the login URL.
C25_Witness ==
    /\ step.op = "sessionEffect"
    /\ session = NoSession
    /\ url = getLoginUrl
    /\ routeInfo = LoginRouteInfo
    /\ isUrlInitialized

\* C26: handleLogout runs the hook's signOut() first and takes its remaining
\* steps only after that call has run to its end: the cookie cleanup, and after
\* it the switch of the url and the route info to the login page.  The switch
\* is made however the cleanup went, a rejected CookieManager call included,
\* and the step that starts a logout leaves the url as it was.
C26_LogoutSequence ==
    [][/\ signingOut' <= loggingOut'
       /\ loggingOut' > loggingOut =>
              /\ step'.op = "signOut"
              /\ signingOut' = signingOut + 1
              /\ out' = <<ProviderSignOut>>
              /\ UNCHANGED <<url, routeInfo>>
       /\ step'.op = "logoutFinished" =>
              /\ signingOut < loggingOut
              /\ loggingOut' = loggingOut - 1
              /\ out' = IF step'.arg \in {"getFailed", "none"}
                        THEN <<CookieGet>>
                        ELSE <<CookieGet, CookieClear>>
              /\ url' = getLoginUrl
              /\ routeInfo' = LoginRouteInfo]_vars

\* C26 witness: a logout ended on the login page after clearing a cookie failed.
C26_Witness ==
    /\ step.op = "logoutFinished"
    /\ step.arg = "clearFailed"
    /\ out = <<CookieGet, CookieClear>>
    /\ url = getLoginUrl
    /\ routeInfo = LoginRouteInfo
    /\ lastSentToken = Null

\* C27: signInWithGoogle() throws to its caller when the authorization surface
\* comes back with a callback URL that carries neither a token pair nor a code,
\* and when the provider reports an error for the OAuth URL, for setSession or
\* for the code exchange.
C27_NoCredentialFails ==
    [][step'.op = "signIn" =>
          /\ (/\ step'.arg.at = "browserOpen"
              /\ step'.arg.input.type = "success"
              /\ step'.arg.input.url.kind = "url"
              /\ extractInCallback(step'.arg.input.url).path = "none") =>
                 step'.arg.end = "threw"
          /\ (step'.arg.at = "urlRequested" /\ step'.arg.input = "error") =>
                 step'.arg.end = "threw"
          /\ (/\ step'.arg.at \in {"settingSession", "exchanging"}
              /\ step'.arg.input.outcome = "error") =>
                 step'.arg.end = "threw"]_vars

\* C28: when the user closes the authorization surface, signInWithGoogle()
\* returns without throwing, no LOGIN_ERROR is injected and isLoggingIn is false
\* again; no step of a sign-in changes the cached session, lastSentTokenRef,
\* webReadyRef or the confirmation slot.
C28_CancelIsNormal ==
    [][step'.op = "signIn" =>
          /\ UNCHANGED <<session, isReady, lastSentToken, webReady, resolverRef,
                         timers, promise, unacked, refreshes, signingOut>>
          /\ (/\ step'.arg.at = "browserOpen"
              /\ step'.arg.input.type \in {"cancel", "dismiss"}) =>
                 /\ step'.arg.end = "returned"
                 /\ out' = <<>>
                 /\ isLoggingIn
                 /\ ~isLoggingIn'
                 /\ signInFlow' = "idle"]_vars

\* C28 witness: a sign-in asked for by the content ended by the user's cancel,
\* with a session cached and delivered.
C28_Witness ==
    /\ step.op = "signIn"
    /\ step.arg.at = "browserOpen"
    /\ step.arg.input.type = "cancel"
    /\ step.arg.end = "returned"
    /\ ~isLoggingIn
    /\ attached
    /\ session # NoSession
    /\ lastSentToken = session.access_token

HasPair(params) == params.access_token # Absent /\ params.refresh_token # Absent

HasCode(params) == params.code # Absent

\* The credential c found in the callback URL u is what looking in both the
\* fragment and the query, the fragment first, finds.
FoundInBoth(u, c) ==
    /\ (HasPair(u.hash) \/ HasPair(u.search) \/ HasCode(u.hash) \/ HasCode(u.search)) =>
           c.path # "none"
    /\ HasPair(u.hash) =>
           /\ c.path = "tokens"
           /\ c.access_token = u.hash.access_token
           /\ c.refresh_token = u.hash.refresh_token
    /\ (c.path = "code" /\ HasCode(u.hash)) => c.code = u.hash.code
    /\ (/\ u.hash.present
        /\ u.hash.access_token = Absent
        /\ u.hash.refresh_token = Absent
        /\ ~HasCode(u.hash)
        /\ ~HasPair(u.search)
        /\ HasCode(u.search)) =>
           (c.path = "code" /\ c.code = u.search.code)

\* C29: the credential taken from a callback URL, by signInWithGoogle() and by
\* the route AuthCallback, is the one found by looking in both the fragment and
\* the query: a token pair or a code in either is found, the fragment's value
\* is taken when both have one, and a fragment without credentials with a code
\* in the query leads to the code exchange.
C29_ExtractionChecksBothLocations ==
    [][/\ (/\ step'.op = "signIn"
           /\ step'.arg.at = "browserOpen"
           /\ step'.arg.input.type = "success"
           /\ step'.arg.input.url.kind = "url") =>
              FoundInBoth(step'.arg.input.url, step'.arg.credential)
       /\ (step'.op = "authCallback" /\ step'.arg.input.kind = "url") =>
              FoundInBoth(step'.arg.input, step'.arg.credential)]_vars

\* C30: classifying the URL of a navigation event never throws: a path is
\* stored.  A URL that cannot be read as a URL at all is stored with path "/",
\* and a URL that is a reference to a page, absolute or relative, is stored with
\* its own path.
C30_ClassifierYieldsOwnPath ==
    [][step'.op = "navigation" =>
          LET u == step'.arg.url
          IN  /\ routeInfo'.path \in Paths
              /\ u = MalformedUrl => routeInfo'.path = "/"
              /\ u.pathname \in Paths => routeInfo'.path = u.pathname]_vars

(* ---------------------------------------------------------------------- *)
(* Agreement of the content with the session, waiters, start-up, debounce   *)
(* ---------------------------------------------------------------------- *)

\* C31: in the token build lastSentTokenRef is the token of the most recent
\* SET_TOKEN injected (null after a clear), and with the WebView attached and
\* no refresh, sign-out or sign-in in flight that command agrees with the
\* cached session: without a session it is not a token, and with a session it
\* is not another token than the cached one.
C31_QuiescentCommandAgrees ==
    [][variant = "token" =>
          LET sent == {i \in 1..Len(out') : out'[i].type = "SET_TOKEN"}
          IN  /\ \A i \in sent :
                     (\A j \in sent : j <= i) => lastSentToken' = out'[i].token
              /\ (sent = {} /\ attached') => lastSentToken' = lastSentToken
              /\ (/\ attached'
                  /\ refreshes'.fresh + refreshes'.stale = 0
                  /\ signingOut' = 0
                  /\ signInFlow' = "idle") =>
                     /\ session' = NoSession => lastSentToken' = Null
                     /\ (session' # NoSession /\ lastSentToken' # Null) =>
                            lastSentToken' = session'.access_token]_vars

\* C32: a send-and-wait call made while the WebView is not attached resolves
\* its promise false in the step of the call, once, without a timer left armed:
\* the slot is empty afterwards, nothing is injected, and a waiter that was
\* pending when the call was made is resolved false in the same step.  The
\* session build's syncSessionToWebView, called in a state without the WebView,
\* ends the same way.
C32_DetachedSendAndWaitFailsAtOnce ==
    [][/\ (~attached /\ IssuedNow' # IssuedNow) =>
              /\ \A n \in IssuedNow' \ IssuedNow :
                     /\ promise'[n] = "settled"
                     /\ resolveCalls'[n] = 1
                     /\ <<n, "false">> \in step'.results
              /\ resolverRef' = Null
              /\ timers' = {}
              /\ out' = <<>>
              /\ lastSentToken' = lastSentToken
              /\ \A w \in Waiters :
                     promise[w] = "pending" =>
                         (promise'[w] = "settled" /\ <<w, "false">> \in step'.results)
       /\ (~attached /\ CanIssue) =>
              \A s \in Sessions :
                  LET r == syncSessionToWebView(s, WaiterState)
                  IN  /\ r.cmds = <<>>
                      /\ r.W.ref = Null
                      /\ r.W.timers = {}
                      /\ r.W.promise[r.waiter] = "settled"
                      /\ <<r.waiter, "false">> \in r.W.results
                      /\ \A w \in Pending : <<w, "false">> \in r.W.results]_vars

\* C32 witness: the first call was made before the WebView mounted and resolved
\* false at once.
C32_Witness ==
    /\ ~attached
    /\ step.op = "sendAndWait"
    /\ step.results = {<<1, "false">>}
    /\ promise[1] = "settled"
    /\ resolverRef = Null
    /\ timers = {}
    /\ session # NoSession

\* C33: after every handler the slot holds a waiter exactly when a confirmation
\* timer is armed, the only armed timer is the one of the waiter in the slot,
\* and that waiter is unresolved.  A waiter that has been resolved (by a
\* confirmation, by a later call, by a failed send or by its timer) is never
\* resolved again, and a timer that fires empties the slot of its own waiter
\* only.
C33_SlotAndTimerTogether ==
    [][/\ (resolverRef' # Null) <=> (timers' # {})
       /\ timers' \subseteq {resolverRef'}
       /\ \A w \in timers' : promise'[w] = "pending"
       /\ \A w \in Waiters :
              promise[w] = "settled" =>
                  /\ resolveCalls'[w] = resolveCalls[w]
                  /\ \A v \in {"true", "false"} : <<w, v>> \notin step'.results
       /\ step'.op = "timeout" =>
              /\ resolverRef = step'.target
              /\ resolverRef' = Null
              /\ step'.results = {<<step'.target, "false">>}]_vars

\* C33 witness: the first waiter was confirmed, and the timer of the second one
\* fired on a slot that held the second.
C33_Witness ==
    /\ step.op = "timeout"
    /\ step.target = 2
    /\ step.results = {<<2, "false">>}
    /\ promise[1] = "settled"
    /\ resolveCalls = [w \in Waiters |-> IF w <= 2 THEN 1 ELSE 0]
    /\ resolverRef = Null
    /\ timers = {}

\* C34: the WebView is not attached while isReady is false, so no step taken
\* before isReady holds injects a command or records a sent token.  The push
\* made when the initial lookup settles sends nothing and leaves
\* lastSentTokenRef as it was, and every command is injected by a later step,
\* with isReady true and the WebView attached.
C34_NothingInjectedBeforeReady ==
    [][/\ ~isReady' => ~attached'
       /\ ~isReady =>
              /\ ~attached
              /\ Commands(out') = {}
              /\ lastSentToken' = lastSentToken
              /\ lastSentToken = Null
       /\ step'.op = "getSession" =>
              /\ ~isReady /\ isReady'
              /\ out' = <<>>
              /\ lastSentToken' = lastSentToken
       /\ Commands(out') # {} =>
              /\ isReady
              /\ attached
              /\ step'.op # "getSession"]_vars

\* C34 witness: the lookup found a session, and its push sent nothing.
C34_Witness ==
    /\ step.op = "getSession"
    /\ isReady
    /\ ~attached
    /\ session # NoSession
    /\ out = <<>>
    /\ lastSentToken = Null

\* C35: lastBackPressRef changes exactly on a back press handled by case 3 that
\* does not exit, and becomes the time of that press.  Presses handled by case 1
\* or case 2, presses that exit, navigation, messages and every other step leave
\* it as it was, so a case-3 press less than DOUBLE_TAP_EXIT_DELAY after the
\* recorded one exits whatever was pressed in between.
C35_DebounceTimeFrame ==
    [][/\ lastBackPressRef' # lastBackPressRef <=>
             /\ BackPressed
             /\ FallsToDoubleTap(routeInfo)
             /\ now - lastBackPressRef >= DOUBLE_TAP_EXIT_DELAY
       /\ lastBackPressRef' # lastBackPressRef =>
             /\ lastBackPressRef' = now
             /\ ~exited'
       /\ (BackPressed /\ ~FallsToDoubleTap(routeInfo)) =>
             /\ lastBackPressRef' = lastBackPressRef
             /\ ~exited'
       /\ (/\ BackPressed
           /\ FallsToDoubleTap(routeInfo)
           /\ now - lastBackPressRef < DOUBLE_TAP_EXIT_DELAY) =>
             /\ exited'
             /\ lastBackPressRef' = lastBackPressRef]_vars

\* C35 witness: a press delegated to the content came after a recorded press
\* and inside its window, and left the recorded time alone.
C35_Witness ==
    /\ isAndroid
    /\ step.op = "backPress"
    /\ out = <<GoBack>>
    /\ lastBackPressRef > 0
    /\ now - lastBackPressRef < DOUBLE_TAP_EXIT_DELAY
    /\ ~exited

====
